---- MODULE Spec2Model ----
(***************************************************************************)
(* Read-through VIN resolver of power-web-service (store-backed variant):  *)
(* GET /nhtsa/{vin} looks the VIN up in the vehicles table, falls back to  *)
(* the NHTSA decoder, normalizes the first result and upserts it;          *)
(* GET /vehicles/{vin} is the store-only lookup.                           *)
(*                                                                         *)
(* Strings that the code measures or slices (request paths, VINs) are      *)
(* sequences of characters.  A Go interface{} value that came out of       *)
(* encoding/json is a tagged value: Str(s), Num(n) (a float64, written by  *)
(* its decimal text) or Nil.  A Go map[string]interface{} is a function    *)
(* from a finite set of keys to tagged values.                             *)
(***************************************************************************)
EXTENDS Naturals, Integers, Sequences, FiniteSets, TLC

VARIABLES
    store,   \* the vehicles table: a set of rows
    clock,   \* the database's now()
    reqs     \* one record per HTTP request in flight or answered

vars == <<store, clock, reqs>>

\* ------------------------------------------------------------ bounds
NumReqs == 2

Reqs == 1..NumReqs

\* ------------------------------------------------------------ values
Str(s) == [t |-> "str", v |-> s]

Num(s) == [t |-> "num", v |-> s]

Nil == [t |-> "nil", v |-> ""]

\* m[k] of a Go map: the zero value (nil interface) when the key is missing
Lookup(m, k) == IF k \in DOMAIN m THEN m[k] ELSE Nil

EmptyMap == [k \in {} |-> Nil]

\* ------------------------------------------------------------ inputs
VinA == <<"1", "H">>

VinB == <<"B", "A", "D">>

VINs == {<<>>, VinA, VinB}

NhtsaPrefix == <<"/", "n", "h", "t", "s", "a", "/">>

VehiclesPrefix == <<"/", "v", "e", "h", "i", "c", "l", "e", "s", "/">>

\* every key a decoder mapping of the model may carry, in the byte order
\* encoding/json writes map keys in
KeyOrder ==
    <<"BodyClass", "EngineCylinders", "ErrorCode", "FuelTypePrimary", "Make",
      "Manufacturer", "Model", "ModelYear", "PlantCountry", "PlantState", "VIN">>

\* a complete decode, all strings; its own VIN field differs from any request's
mFull ==
    [k \in {"BodyClass", "EngineCylinders", "FuelTypePrimary", "Make",
            "Manufacturer", "Model", "ModelYear", "PlantCountry", "PlantState",
            "VIN"} |->
        CASE k = "BodyClass" -> Str("Sedan")
          [] k = "EngineCylinders" -> Str("4")
          [] k = "FuelTypePrimary" -> Str("Gasoline")
          [] k = "Make" -> Str("TOYOTA")
          [] k = "Manufacturer" -> Str("TMC")
          [] k = "Model" -> Str("Corolla")
          [] k = "ModelYear" -> Str("2019")
          [] k = "PlantCountry" -> Str("JAPAN")
          [] k = "PlantState" -> Str("")
          [] OTHER -> Str("OTHERVIN")]

\* another complete decode, every value different from mFull's
mFull2 ==
    [k \in {"BodyClass", "EngineCylinders", "FuelTypePrimary", "Make",
            "Manufacturer", "Model", "ModelYear", "PlantCountry", "PlantState"} |->
        CASE k = "BodyClass" -> Str("Coupe")
          [] k = "EngineCylinders" -> Str("6")
          [] k = "FuelTypePrimary" -> Str("Diesel")
          [] k = "Make" -> Str("BMW")
          [] k = "Manufacturer" -> Str("BMW AG")
          [] k = "Model" -> Str("M3")
          [] k = "ModelYear" -> Str("2021")
          [] k = "PlantCountry" -> Str("GERMANY")
          [] OTHER -> Str("BY")]

\* the spec's scenario {Make: Honda, Model: Civic, ModelYear: 2020}, with an
\* explicit null and a key outside the canonical schema
mPartial ==
    [k \in {"Make", "Model", "ModelYear", "PlantState", "ErrorCode"} |->
        CASE k = "Make" -> Str("Honda")
          [] k = "Model" -> Str("Civic")
          [] k = "ModelYear" -> Num("2020")
          [] k = "PlantState" -> Nil
          [] OTHER -> Str("0")]

SampleMaps == {EmptyMap, mPartial, mFull, mFull2}

\* the Results arrays the decoder may answer with
SampleResults ==
    {<<>>} \cup {<<m>> : m \in SampleMaps} \cup {<<mFull, mPartial>>}

\* what the network hands back to client.Do / io.ReadAll
Replies ==
    {[kind |-> k, code |-> 0, results |-> <<>>] :
        k \in {"transport", "timeout", "readbody"}}
    \cup {[kind |-> "http", code |-> 500, results |-> <<>>]}
    \cup {[kind |-> "garbage", code |-> 200, results |-> <<>>]}
    \cup {[kind |-> "http", code |-> 200, results |-> rs] : rs \in SampleResults}

\* ------------------------------------------------------------ encoding/json
RECURSIVE MarshalFrom(_, _)
\* json.Marshal of a map: the members in key order, each value as a JSON token
MarshalFrom(m, i) ==
    IF i > Len(KeyOrder) THEN <<>>
    ELSE LET k == KeyOrder[i]
             rest == MarshalFrom(m, i + 1)
         IN  IF k \in DOMAIN m
             THEN <<[key |-> k,
                     tok |-> CASE m[k].t = "str" -> "string"
                               [] m[k].t = "num" -> "number"
                               [] OTHER -> "null",
                     txt |-> m[k].v]>> \o rest
             ELSE rest

Marshal(m) == MarshalFrom(m, 1)

\* json.Unmarshal(raw, &rawJSON): every member back into the map, a string as
\* string, a number as float64, null as nil
Unmarshal(raw) ==
    LET mem == {raw[i] : i \in 1..Len(raw)}
    IN  [k \in {e.key : e \in mem} |->
            LET e == CHOOSE x \in mem : x.key = k
            IN  CASE e.tok = "string" -> Str(e.txt)
                  [] e.tok = "number" -> Num(e.txt)
                  [] OTHER -> Nil]

\* ------------------------------------------------------------ vehicles table
Cols ==
    {"make", "model", "model_year", "manufacturer", "plant_country",
     "plant_state", "body_class", "engine_cylinders", "fuel_type"}

\* the columns of vehicles that accept NULL: the table's DDL is not part of the
\* sources; every canonical field is optional (absent when the decoder did not
\* supply it), so every one of these columns is nullable
Nullable == Cols

\* (mutant) the fuel type is read under the key "FuelType"
NormalizeWrongFuelKey(vin, flat) ==
    [vin |-> vin,
     make |-> Lookup(flat, "Make"),
     model |-> Lookup(flat, "Model"),
     model_year |-> Lookup(flat, "ModelYear"),
     manufacturer |-> Lookup(flat, "Manufacturer"),
     plant_country |-> Lookup(flat, "PlantCountry"),
     plant_state |-> Lookup(flat, "PlantState"),
     body_class |-> Lookup(flat, "BodyClass"),
     engine_cylinders |-> Lookup(flat, "EngineCylinders"),
     fuel_type |-> Lookup(flat, "FuelType"),
     raw |-> flat]

\* (mutant) the record is keyed by the VIN the payload carries, when it
\* carries one
NormalizePayloadVin(vin, flat) ==
    [vin |-> IF "VIN" \in DOMAIN flat THEN <<flat["VIN"].v>> ELSE vin,
     make |-> Lookup(flat, "Make"),
     model |-> Lookup(flat, "Model"),
     model_year |-> Lookup(flat, "ModelYear"),
     manufacturer |-> Lookup(flat, "Manufacturer"),
     plant_country |-> Lookup(flat, "PlantCountry"),
     plant_state |-> Lookup(flat, "PlantState"),
     body_class |-> Lookup(flat, "BodyClass"),
     engine_cylinders |-> Lookup(flat, "EngineCylinders"),
     fuel_type |-> Lookup(flat, "FuelTypePrimary"),
     raw |-> flat]

\* the record nhtsaHandler builds from the first result (flat) of the decoder
Normalize(vin, flat) ==
    [vin |-> vin,
     make |-> Lookup(flat, "Make"),
     model |-> Lookup(flat, "Model"),
     model_year |-> Lookup(flat, "ModelYear"),
     manufacturer |-> Lookup(flat, "Manufacturer"),
     plant_country |-> Lookup(flat, "PlantCountry"),
     plant_state |-> Lookup(flat, "PlantState"),
     body_class |-> Lookup(flat, "BodyClass"),
     engine_cylinders |-> Lookup(flat, "EngineCylinders"),
     fuel_type |-> Lookup(flat, "FuelTypePrimary"),
     raw |-> flat]

\* INSERT INTO vehicles (...) VALUES ($1..$11): a nil interface is SQL NULL
InsertRow(out, t) ==
    [vin |-> out.vin, make |-> out.make, model |-> out.model,
     model_year |-> out.model_year, manufacturer |-> out.manufacturer,
     plant_country |-> out.plant_country, plant_state |-> out.plant_state,
     body_class |-> out.body_class, engine_cylinders |-> out.engine_cylinders,
     fuel_type |-> out.fuel_type, raw |-> Marshal(out.raw), last_updated |-> t]

\* (mutant) the conflict branch binds make and model to each other's parameter
UpdateRowSwapped(old, out, t) ==
    [old EXCEPT !.make = out.model, !.model = out.make,
                !.model_year = out.model_year, !.manufacturer = out.manufacturer,
                !.plant_country = out.plant_country, !.plant_state = out.plant_state,
                !.body_class = out.body_class,
                !.engine_cylinders = out.engine_cylinders,
                !.fuel_type = out.fuel_type, !.raw = Marshal(out.raw),
                !.last_updated = t]

\* (mutant) the conflict branch keeps a column whose new value is NULL:
\* make=COALESCE($2, vehicles.make), ...
UpdateRowCoalesce(old, out, t) ==
    [old EXCEPT !.make = IF out.make = Nil THEN @ ELSE out.make,
                !.model = IF out.model = Nil THEN @ ELSE out.model,
                !.model_year = IF out.model_year = Nil THEN @ ELSE out.model_year,
                !.manufacturer = IF out.manufacturer = Nil THEN @ ELSE out.manufacturer,
                !.plant_country = IF out.plant_country = Nil THEN @ ELSE out.plant_country,
                !.plant_state = IF out.plant_state = Nil THEN @ ELSE out.plant_state,
                !.body_class = IF out.body_class = Nil THEN @ ELSE out.body_class,
                !.engine_cylinders = IF out.engine_cylinders = Nil THEN @
                                     ELSE out.engine_cylinders,
                !.fuel_type = IF out.fuel_type = Nil THEN @ ELSE out.fuel_type,
                !.raw = Marshal(out.raw), !.last_updated = t]

\* (mutant) the conflict branch forgets raw=$11
UpdateRowKeepsRaw(old, out, t) ==
    [old EXCEPT !.make = out.make, !.model = out.model,
                !.model_year = out.model_year, !.manufacturer = out.manufacturer,
                !.plant_country = out.plant_country, !.plant_state = out.plant_state,
                !.body_class = out.body_class,
                !.engine_cylinders = out.engine_cylinders,
                !.fuel_type = out.fuel_type, !.last_updated = t]

\* ON CONFLICT (vin) DO UPDATE SET make=$2, ..., raw=$11, last_updated=now()
UpdateRow(old, out, t) ==
    [old EXCEPT !.make = out.make, !.model = out.model,
                !.model_year = out.model_year, !.manufacturer = out.manufacturer,
                !.plant_country = out.plant_country, !.plant_state = out.plant_state,
                !.body_class = out.body_class,
                !.engine_cylinders = out.engine_cylinders,
                !.fuel_type = out.fuel_type, !.raw = Marshal(out.raw),
                !.last_updated = t]

\* db.Exec is refused when a NULL is bound to a column that does not take it
ExecRefused(out) == \E c \in Cols \ Nullable : out[c].t = "nil"

RowsOf(st, vin) == {row \in st : row.vin = vin}

\* (mutant) the statement replaces the table's content by the new row
upsertVehicleReplacesAll(st, out, t) == {InsertRow(out, t)}

\* the table after a successful upsertVehicle(db, out) at database time t
upsertVehicle(st, out, t) ==
    IF RowsOf(st, out.vin) = {}
    THEN st \cup {InsertRow(out, t)}
    ELSE {IF row.vin = out.vin THEN UpdateRow(row, out, t) ELSE row : row \in st}

\* row.Scan into Go string variables: NULL cannot be converted to string
ScanFails(row) == \E c \in Cols : row[c].t = "nil"

\* database/sql converts a non-NULL column value to the destination string
ScanString(x) == Str(x.v)

\* getVehicleByVIN(db, vin); dbok = FALSE is a query that fails in transit
getVehicleByVIN(st, vin, dbok) ==
    IF ~dbok THEN [err |-> "conn"]
    ELSE IF RowsOf(st, vin) = {} THEN [err |-> "no rows"]
    ELSE LET row == CHOOSE x \in RowsOf(st, vin) : TRUE
         IN  IF ScanFails(row) THEN [err |-> "scan"]
             ELSE [err |-> "",
                   v |-> [vin |-> row.vin,
                          make |-> ScanString(row.make),
                          model |-> ScanString(row.model),
                          model_year |-> ScanString(row.model_year),
                          manufacturer |-> ScanString(row.manufacturer),
                          plant_country |-> ScanString(row.plant_country),
                          plant_state |-> ScanString(row.plant_state),
                          body_class |-> ScanString(row.body_class),
                          engine_cylinders |-> ScanString(row.engine_cylinders),
                          fuel_type |-> ScanString(row.fuel_type),
                          raw |-> Unmarshal(row.raw)]]

\* ------------------------------------------------------------ decoder client
\* fetchNHTSA(vin) when the network answers with reply
fetchNHTSA(vin, reply) ==
    IF vin = <<>> THEN [err |-> "vin vazio"]
    ELSE IF reply.kind \in {"transport", "timeout"} THEN [err |-> "http request"]
    ELSE IF reply.kind = "readbody" THEN [err |-> "read body"]
    ELSE IF reply.code # 200 THEN [err |-> "nhtsa status"]
    ELSE IF reply.kind = "garbage" THEN [err |-> "unmarshal nhtsa json"]
    ELSE [err |-> "", results |-> reply.results]

\* flat: the first result, or an empty map when there is none
Flat(results) == IF Len(results) > 0 THEN results[1] ELSE EmptyMap

\* ------------------------------------------------------------ handlers
\* no decoder response has reached the request
NoReply == [kind |-> "none", code |-> 0, results |-> <<>>]

\* a request the server has not received yet
IdleReq ==
    [pc |-> "idle", route |-> "", vin |-> <<>>, readErr |-> "-", readAt |-> 0,
     decodes |-> 0, fetchErr |-> "-", out |-> Normalize(<<>>, EmptyMap),
     dbErr |-> "-", wroteAt |-> 0, status |-> 0, body |-> [error |-> ""],
     reply |-> NoReply, cancelled |-> FALSE]

\* jsonWrite(w, status, v)
jsonWrite(rq, status, v) == [rq EXCEPT !.pc = "done", !.status = status, !.body = v]

\* (mutant) the comparison is strict
MissingVinStrict(path, prefix) == Len(path) < Len(prefix)

\* len(r.URL.Path) <= len(prefix)
MissingVin(path, prefix) == Len(path) <= Len(prefix)

\* r.URL.Path[len(prefix):]
PathVin(path, prefix) == SubSeq(path, Len(prefix) + 1, Len(path))

\* nhtsaHandler up to the store lookup: the path check and the VIN
nhtsaBegin(rq, path) ==
    IF MissingVin(path, NhtsaPrefix)
    THEN jsonWrite([rq EXCEPT !.route = "nhtsa"], 400, [error |-> "use /nhtsa/{vin}"])
    ELSE [rq EXCEPT !.route = "nhtsa", !.pc = "nhtsa_read",
                    !.vin = PathVin(path, NhtsaPrefix)]

\* (mutant) a hit refreshes the row: the record read is upserted again
\* before it is returned
nhtsaAfterReadRefreshes(rq, got, t) ==
    IF got.err = ""
    THEN [rq EXCEPT !.readErr = "", !.readAt = t, !.out = got.v,
                    !.pc = "nhtsa_upsert"]
    ELSE [rq EXCEPT !.readErr = got.err, !.readAt = t, !.pc = "nhtsa_fetch"]

\* (mutant) only sql.ErrNoRows counts as a miss, any other error is a 500
nhtsaAfterReadStrict(rq, got, t) ==
    IF got.err = ""
    THEN jsonWrite([rq EXCEPT !.readErr = "", !.readAt = t], 200, got.v)
    ELSE IF got.err = "no rows"
    THEN [rq EXCEPT !.readErr = got.err, !.readAt = t, !.pc = "nhtsa_fetch"]
    ELSE jsonWrite([rq EXCEPT !.readErr = got.err, !.readAt = t], 500,
                   [error |-> got.err])

\* nhtsaHandler after getVehicleByVIN returned got, read at database time t
nhtsaAfterRead(rq, got, t) ==
    IF got.err = ""
    THEN jsonWrite([rq EXCEPT !.readErr = "", !.readAt = t], 200, got.v)
    ELSE [rq EXCEPT !.readErr = got.err, !.readAt = t, !.pc = "nhtsa_fetch"]

\* (mutant) a failed decode is cached as an empty record instead of ending
\* the request
nhtsaAfterFetchCachesFailure(rq, res) ==
    [rq EXCEPT !.decodes = @ + 1, !.fetchErr = res.err,
               !.out = Normalize(rq.vin, IF res.err # "" THEN EmptyMap
                                         ELSE Flat(res.results)),
               !.pc = "nhtsa_upsert"]

\* nhtsaHandler after fetchNHTSA returned res
nhtsaAfterFetch(rq, res) ==
    IF res.err # ""
    THEN jsonWrite([rq EXCEPT !.decodes = @ + 1, !.fetchErr = res.err], 502,
                   [vin |-> rq.vin, error |-> res.err])
    ELSE [rq EXCEPT !.decodes = @ + 1, !.fetchErr = "",
                    !.out = Normalize(rq.vin, Flat(res.results)),
                    !.pc = "nhtsa_upsert"]

\* (mutant) a failed upsert fails the request
nhtsaAfterUpsertFatal(rq, dbok, t) ==
    IF dbok
    THEN jsonWrite([rq EXCEPT !.dbErr = "", !.wroteAt = t], 200, rq.out)
    ELSE jsonWrite([rq EXCEPT !.dbErr = "exec"], 500, [error |-> "exec"])

\* nhtsaHandler after upsertVehicle returned: an error is logged, the answer
\* is the decoded record either way
nhtsaAfterUpsert(rq, dbok, t) ==
    jsonWrite([rq EXCEPT !.dbErr = IF dbok THEN "" ELSE "exec",
                         !.wroteAt = IF dbok THEN t ELSE 0], 200, rq.out)

\* vehicleHandler up to the store lookup
vehicleBegin(rq, path) ==
    IF MissingVin(path, VehiclesPrefix)
    THEN jsonWrite([rq EXCEPT !.route = "vehicles"], 400,
                   [error |-> "use /vehicles/{vin}"])
    ELSE [rq EXCEPT !.route = "vehicles", !.pc = "vehicles_read",
                    !.vin = PathVin(path, VehiclesPrefix)]

\* vehicleHandler after getVehicleByVIN returned got
vehicleAfterRead(rq, got, t) ==
    IF got.err # ""
    THEN jsonWrite([rq EXCEPT !.readErr = got.err, !.readAt = t], 404,
                   [error |-> "vin not found"])
    ELSE jsonWrite([rq EXCEPT !.readErr = "", !.readAt = t], 200, got.v)

\* ------------------------------------------------------------ actions
Init ==
    /\ store = {}
    /\ clock = 0
    /\ reqs = [r \in Reqs |-> IdleReq]

\* requests are numbered in the order the server receives them
MayStart(r) ==
    /\ reqs[r].pc = "idle"
    /\ IF r = 1 THEN TRUE ELSE reqs[r - 1].pc # "idle"

nhtsaStart(r) ==
    /\ MayStart(r)
    /\ \E vin \in VINs :
          reqs' = [reqs EXCEPT ![r] = nhtsaBegin(reqs[r], NhtsaPrefix \o vin)]
    /\ UNCHANGED <<store, clock>>

nhtsaRead(r) ==
    /\ reqs[r].pc = "nhtsa_read"
    /\ \E dbok \in BOOLEAN :
          reqs' = [reqs EXCEPT ![r] =
                     nhtsaAfterRead(reqs[r],
                                    getVehicleByVIN(store, reqs[r].vin, dbok), clock)]
    /\ UNCHANGED <<store, clock>>

nhtsaFetch(r) ==
    /\ reqs[r].pc = "nhtsa_fetch"
    /\ \E reply \in Replies :
          reqs' = [reqs EXCEPT ![r] =
                     nhtsaAfterFetch(reqs[r], fetchNHTSA(reqs[r].vin, reply))]
    /\ UNCHANGED <<store, clock>>

nhtsaUpsert(r) ==
    /\ reqs[r].pc = "nhtsa_upsert"
    /\ \E dbok \in BOOLEAN :
          LET ok == dbok /\ ~ExecRefused(reqs[r].out)
          IN  /\ store' = IF ok THEN upsertVehicle(store, reqs[r].out, clock + 1)
                          ELSE store
              /\ clock' = IF ok THEN clock + 1 ELSE clock
              /\ reqs' = [reqs EXCEPT ![r] = nhtsaAfterUpsert(reqs[r], ok, clock + 1)]

vehicleStart(r) ==
    /\ MayStart(r)
    /\ \E vin \in VINs :
          reqs' = [reqs EXCEPT ![r] = vehicleBegin(reqs[r], VehiclesPrefix \o vin)]
    /\ UNCHANGED <<store, clock>>

vehicleRead(r) ==
    /\ reqs[r].pc = "vehicles_read"
    /\ \E dbok \in BOOLEAN :
          reqs' = [reqs EXCEPT ![r] =
                     vehicleAfterRead(reqs[r],
                                      getVehicleByVIN(store, reqs[r].vin, dbok), clock)]
    /\ UNCHANGED <<store, clock>>

Next ==
    \E r \in Reqs :
        \/ nhtsaStart(r)
        \/ nhtsaRead(r)
        \/ nhtsaFetch(r)
        \/ nhtsaUpsert(r)
        \/ vehicleStart(r)
        \/ vehicleRead(r)

Spec == Init /\ [][Next]_vars

\* ------------------------------------------------------------ vocabulary of the claims
Resolves == {r \in Reqs : reqs[r].route = "nhtsa"}

\* the store lookup of request r was answered by the database
StoreAnswered(r) == reqs[r].readErr \in {"", "no rows", "scan"}

\* the lookup of request r found a row for its VIN
RowWasPresent(r) == reqs[r].readErr \in {"", "scan"}

DecodeFailed(r) == reqs[r].fetchErr \notin {"-", ""}

UpsertOk(r) == reqs[r].dbErr = ""

\* the record a row holds: its columns as stored, its raw payload decoded
RowRecord(row) ==
    [vin |-> row.vin, make |-> row.make, model |-> row.model,
     model_year |-> row.model_year, manufacturer |-> row.manufacturer,
     plant_country |-> row.plant_country, plant_state |-> row.plant_state,
     body_class |-> row.body_class, engine_cylinders |-> row.engine_cylinders,
     fuel_type |-> row.fuel_type, raw |-> Unmarshal(row.raw)]

\* request r2 looked its VIN up after request r1 had upserted the same VIN
ReadsAfterWriteOf(r2, r1) ==
    /\ r1 \in Resolves /\ UpsertOk(r1)
    /\ reqs[r2].vin = reqs[r1].vin
    /\ StoreAnswered(r2)
    /\ reqs[r2].readAt >= reqs[r1].wroteAt

\* ------------------------------------------------------------ C1
\* C1 (fast-path purity): a resolve request whose VIN had a row in the store
\* when it looked it up never calls the decoder and is answered 200 with the
\* stored record, NULL columns included.
C1_FastPathPurity ==
    \A r \in Resolves :
        RowWasPresent(r) =>
            /\ reqs[r].decodes = 0
            /\ reqs[r].pc = "done" => reqs[r].status = 200
            /\ \A row \in RowsOf(store, reqs[r].vin) :
                  (reqs[r].pc = "done" /\ row.last_updated <= reqs[r].readAt)
                      => reqs[r].body = RowRecord(row)

\* ------------------------------------------------------------ C2
\* C2 (read-through population): a resolve request that found no row calls
\* the decoder exactly once and upserts the normalized result; once that
\* upsert succeeded, a later resolve of the same VIN is answered with the
\* upserted record and calls the decoder no second time.
C2_ReadThroughPopulation ==
    /\ \A r \in Resolves :
          (reqs[r].readErr = "no rows" /\ reqs[r].pc = "done")
              => /\ reqs[r].decodes = 1
                 /\ ~DecodeFailed(r) => reqs[r].dbErr \in {"", "exec"}
    /\ \A r1 \in Resolves, r2 \in Resolves :
          (reqs[r1].readErr = "no rows" /\ ReadsAfterWriteOf(r2, r1))
              => /\ reqs[r2].decodes = 0
                 /\ (reqs[r2].pc = "done" /\ reqs[r2].readAt = reqs[r1].wroteAt)
                      => (reqs[r2].status = 200 /\ reqs[r2].body = reqs[r1].out)

\* ------------------------------------------------------------ C3
\* the step in which request r hears from the decoder, and hears a failure
DecodeFailsIn(r) ==
    /\ reqs[r].pc = "nhtsa_fetch"
    /\ reqs'[r] # reqs[r]
    /\ reqs'[r].fetchErr # ""

\* C3 (decode failure writes nothing): when the decoder call of a resolve
\* request fails, the request is answered 502 with its VIN and the cause in
\* that very step, the store is left as it was, and the request never
\* attempts an upsert.
C3_DecodeFailureWritesNothing ==
    /\ [](\A r \in Resolves :
            DecodeFailed(r) =>
                /\ reqs[r].pc = "done" /\ reqs[r].status = 502
                /\ reqs[r].dbErr = "-" /\ reqs[r].wroteAt = 0)
    /\ [][\A r \in Reqs :
            DecodeFailsIn(r) =>
                /\ reqs'[r].pc = "done" /\ reqs'[r].status = 502
                /\ reqs'[r].body = [vin |-> reqs[r].vin, error |-> reqs'[r].fetchErr]
                /\ reqs'[r].fetchErr \in
                      {"http request", "read body", "nhtsa status",
                       "unmarshal nhtsa json"}
                /\ store' = store /\ clock' = clock]_vars

\* a request that missed the store, got a non-200 from the decoder and was
\* answered 502, while the store holds a row written by another request
C3_Witness ==
    \E r \in Resolves :
        /\ reqs[r].readErr = "no rows" /\ reqs[r].fetchErr = "nhtsa status"
        /\ reqs[r].pc = "done" /\ reqs[r].status = 502
        /\ store # {}

\* ------------------------------------------------------------ C4
\* the step in which the upsert of request r fails
UpsertFailsIn(r) ==
    /\ reqs[r].pc = "nhtsa_upsert"
    /\ reqs'[r] # reqs[r]
    /\ reqs'[r].dbErr # ""

\* C4 (best-effort caching): when the decoder succeeded and the upsert fails,
\* the request is still answered 200 with the freshly normalized record, and
\* the failed write leaves the store unchanged.
C4_BestEffortCaching ==
    /\ [](\A r \in Resolves :
            (reqs[r].pc = "done" /\ reqs[r].dbErr = "exec")
                => /\ reqs[r].status = 200
                   /\ reqs[r].body = reqs[r].out
                   /\ reqs[r].out.vin = reqs[r].vin)
    /\ [][\A r \in Reqs :
            UpsertFailsIn(r) =>
                /\ reqs'[r].pc = "done" /\ reqs'[r].status = 200
                /\ reqs'[r].body = reqs[r].out
                /\ store' = store]_vars

\* a request whose upsert failed and that was answered 200 with a populated
\* record, the store holding no row for its VIN
C4_Witness ==
    \E r \in Resolves :
        /\ reqs[r].pc = "done" /\ reqs[r].dbErr = "exec" /\ reqs[r].status = 200
        /\ reqs[r].out.raw = mFull
        /\ RowsOf(store, reqs[r].vin) = {}

\* ------------------------------------------------------------ C5
\* the decoder answered request r with zero result entries
DecodedEmpty(r) ==
    /\ r \in Resolves /\ reqs[r].fetchErr = ""
    /\ reqs[r].out.raw = EmptyMap

\* C5 (empty-result caching): a decode with zero result entries is a success
\* with every canonical field absent and an empty raw payload, it is upserted,
\* and once upserted later resolves of the VIN are served from the store
\* without another decoder call.
C5_EmptyResultCaching ==
    /\ \A r \in Resolves :
          (DecodedEmpty(r) /\ reqs[r].pc = "done")
              => /\ reqs[r].status = 200
                 /\ \A c \in Cols : reqs[r].out[c] = Nil
                 /\ reqs[r].dbErr \in {"", "exec"}
    /\ \A r1 \in Resolves, r2 \in Resolves :
          (DecodedEmpty(r1) /\ ReadsAfterWriteOf(r2, r1))
              => /\ reqs[r2].decodes = 0
                 /\ reqs[r2].pc = "done" => reqs[r2].status = 200

\* ------------------------------------------------------------ C6
\* the requests that upserted a row for vin
Writers(vin) == {r \in Resolves : UpsertOk(r) /\ reqs[r].vin = vin}

\* row is, column by column and in its raw payload, what request r upserted
RowWrittenBy(row, r) ==
    /\ row.vin = reqs[r].out.vin
    /\ \A c \in Cols : row[c] = reqs[r].out[c]
    /\ Unmarshal(row.raw) = reqs[r].out.raw
    /\ row.last_updated = reqs[r].wroteAt

\* C6 (concurrent same-key writes): whatever the interleaving, a VIN has at
\* most one row, and that row is in every canonical field and in its raw
\* payload the record of one single upsert, the last one to commit; never a
\* mixture of several writes.
C6_ConcurrentSameKeyWrites ==
    \A vin \in VINs :
        /\ Cardinality(RowsOf(store, vin)) <= 1
        /\ (Writers(vin) # {}) => (RowsOf(store, vin) # {})
        /\ \A row \in RowsOf(store, vin) :
              \E r \in Writers(vin) :
                  /\ RowWrittenBy(row, r)
                  /\ \A w \in Writers(vin) : reqs[w].wroteAt <= reqs[r].wroteAt

\* two requests for one VIN both missed the store, decoded different records
\* and both upserted
C6_Witness ==
    \E r1 \in Resolves, r2 \in Resolves :
        /\ r1 # r2 /\ reqs[r1].vin = reqs[r2].vin
        /\ reqs[r1].readErr = "no rows" /\ reqs[r2].readErr = "no rows"
        /\ UpsertOk(r1) /\ UpsertOk(r2)
        /\ reqs[r1].out.raw = mFull /\ reqs[r2].out.raw = mPartial
        /\ reqs[r1].wroteAt < reqs[r2].wroteAt

\* ------------------------------------------------------------ C7
\* C7 (store read failures fall through): a resolve request whose lookup
\* failed for another reason than the key being absent goes on to the
\* decoder; its answer is the decoder's outcome (200 with the decoded record
\* or 502), never a store failure.
C7_ReadFailuresFallThrough ==
    \A r \in Resolves :
        reqs[r].readErr \in {"conn", "scan"} =>
            /\ reqs[r].pc \in {"nhtsa_fetch", "nhtsa_upsert", "done"}
            /\ reqs[r].pc # "nhtsa_fetch" => reqs[r].decodes = 1
            /\ reqs[r].pc = "done" =>
                  \/ reqs[r].status = 502 /\ DecodeFailed(r)
                  \/ /\ reqs[r].status = 200 /\ reqs[r].fetchErr = ""
                     /\ reqs[r].body = reqs[r].out

\* one request fell through on a row it could not scan, another on a failed
\* query, and both were answered from the decoder
C7_Witness ==
    \E r1 \in Resolves, r2 \in Resolves :
        /\ reqs[r1].readErr = "conn" /\ reqs[r1].status = 200
        /\ reqs[r2].readErr = "scan" /\ reqs[r2].status = 200
        /\ reqs[r2].decodes = 1

\* ------------------------------------------------------------ C8
\* C8 (empty VIN rejected first): a request whose path carries no VIN is
\* answered 400 at once, without a store read, a decoder call or a store write.
C8_EmptyVinRejected ==
    /\ [](\A r \in Reqs :
            (reqs[r].pc # "idle" /\ reqs[r].vin = <<>>)
                => /\ reqs[r].pc = "done" /\ reqs[r].status = 400
                   /\ reqs[r].readErr = "-" /\ reqs[r].decodes = 0
                   /\ reqs[r].fetchErr = "-" /\ reqs[r].dbErr = "-")
    /\ [][\A r \in Reqs :
            (reqs[r].pc = "idle" /\ reqs'[r].pc # "idle" /\ reqs'[r].status = 400)
                => store' = store /\ clock' = clock]_vars

\* both routes rejected a request without VIN
C8_Witness ==
    \E r1 \in Reqs, r2 \in Reqs :
        /\ reqs[r1].route = "nhtsa" /\ reqs[r1].status = 400
        /\ reqs[r2].route = "vehicles" /\ reqs[r2].status = 400

\* ------------------------------------------------------------ C9
\* what the store adapter's get answers for every VIN
Observable(st) == [v \in VINs |-> getVehicleByVIN(st, v, TRUE)]

\* a table without its update timestamps
Contents(st) == {RowRecord(row) : row \in st}

\* the step in which request r upserts, successfully, a record that the row
\* of its VIN already holds from an earlier upsert of the identical record
UpsertsAgainIn(r) ==
    /\ reqs[r].pc = "nhtsa_upsert"
    /\ reqs'[r].pc = "done" /\ reqs'[r].dbErr = ""
    /\ \E w \in Writers(reqs[r].vin), row \in RowsOf(store, reqs[r].vin) :
          reqs[w].out = reqs[r].out /\ row.last_updated = reqs[w].wroteAt

\* C9 (upsert idempotence): upserting a record into a store that already
\* holds it from an upsert of the same record leaves get answering for every
\* VIN what it answered after the first upsert (and every row with the same
\* columns and payload).
C9_UpsertIdempotent ==
    [][\A r \in Reqs :
        UpsertsAgainIn(r) =>
            /\ Observable(store') = Observable(store)
            /\ Contents(store') = Contents(store)]_vars

\* two requests upserted the identical, fully populated record one after the
\* other, and get answers it
C9_Witness ==
    \E r1 \in Resolves, r2 \in Resolves :
        /\ UpsertOk(r1) /\ UpsertOk(r2)
        /\ reqs[r1].out = reqs[r2].out /\ reqs[r1].out.raw = mFull
        /\ reqs[r2].wroteAt = reqs[r1].wroteAt + 1
        /\ Observable(store)[reqs[r1].vin].err = ""

\* ------------------------------------------------------------ C10
\* C10 (normalize/store round trip): a record normalized from a decoder
\* mapping and upserted reads back through get (the store-only lookup) with
\* canonical fields equal to the direct mapping, absent ones included, and a
\* raw payload equal to the mapping.
C10_RoundTrip ==
    \A w \in Resolves, g \in Reqs :
        ( /\ reqs[g].route = "vehicles" /\ reqs[g].pc = "done"
          /\ ReadsAfterWriteOf(g, w)
          /\ reqs[g].readAt = reqs[w].wroteAt )
        => /\ reqs[g].status = 200
           /\ \A c \in Cols : reqs[g].body[c] = reqs[w].out[c]
           /\ reqs[g].body.raw = reqs[w].out.raw

\* ============================================================ the variants
\* without a store: the JD Power service (main.go) and the NHTSA service
\* that answers straight from the decoder (part_001)
VinPrefix == <<"/", "v", "i", "n", "/">>

\* http.Client{Timeout: 12 * time.Second}, in seconds
ClientTimeoutSec == 12

\* context.WithTimeout(r.Context(), 15*time.Second), in seconds
CtxTimeoutSec == 15

\* one decoded model of the JD Power answer
SampleModel == [Make |-> "SUZUKI", Model |-> "GSX-R750", Year |-> "2018"]

\* what the network hands back to client.Do / io.ReadAll of fetchVIN; a
\* payload without a Status field decodes to the empty status
VinReplies ==
    {[kind |-> "transport", code |-> 0, status |-> "", results |-> <<>>]}
    \cup {[kind |-> "http", code |-> 500, status |-> "", results |-> <<>>]}
    \cup {[kind |-> "readbody", code |-> 200, status |-> "", results |-> <<>>]}
    \cup {[kind |-> "garbage", code |-> 200, status |-> "", results |-> <<>>]}
    \cup {[kind |-> "http", code |-> 200, status |-> st, results |-> ms] :
            st \in {"ExactMatch", "NoRecordsFound", ""},
            ms \in {<<>>, <<SampleModel>>}}

\* client.Do returned because the timeout of the client or the deadline of
\* the context passed
TimeoutReply == [kind |-> "timeout", code |-> 0, status |-> "", results |-> <<>>]

\* client.Do returned because the context of the request was cancelled
CanceledReply == [kind |-> "canceled", code |-> 0, status |-> "", results |-> <<>>]

\* (mutant) the business status of the payload is not looked at
fetchVINAnyStatus(vin, reply) ==
    IF vin = <<>> THEN [err |-> "vin vazio"]
    ELSE IF reply.kind \in {"transport", "timeout", "canceled"}
    THEN [err |-> "executando request"]
    ELSE IF reply.code # 200 THEN [err |-> "status HTTP inesperado"]
    ELSE IF reply.kind = "readbody" THEN [err |-> "lendo corpo"]
    ELSE IF reply.kind = "garbage" THEN [err |-> "decodificando JSON"]
    ELSE [err |-> "", resp |-> [Status |-> reply.status, Models |-> reply.results]]

\* fetchVIN(ctx, cfg, vin) when client.Do ends with reply
fetchVIN(vin, reply) ==
    IF vin = <<>> THEN [err |-> "vin vazio"]
    ELSE IF reply.kind \in {"transport", "timeout", "canceled"}
    THEN [err |-> "executando request"]
    ELSE IF reply.code # 200 THEN [err |-> "status HTTP inesperado"]
    ELSE IF reply.kind = "readbody" THEN [err |-> "lendo corpo"]
    ELSE IF reply.kind = "garbage" THEN [err |-> "decodificando JSON"]
    ELSE IF reply.status # "ExactMatch" THEN [err |-> "status da API"]
    ELSE [err |-> "", resp |-> [Status |-> reply.status, Models |-> reply.results]]

\* vinHandler up to client.Do: the path check, the context, the request sent
vinBegin(rq, path) ==
    IF MissingVin(path, VinPrefix)
    THEN jsonWrite([rq EXCEPT !.route = "vin"], 400,
                   [error |-> "vin ausente; use /vin/{vin}"])
    ELSE [rq EXCEPT !.route = "vin", !.pc = "vin_wait",
                    !.vin = PathVin(path, VinPrefix), !.decodes = @ + 1]

\* (mutant) a failed call is tried once more before the failure is reported
vinAfterFetchRetries(rq, reply) ==
    LET res == fetchVIN(rq.vin, reply)
    IN  IF res.err # "" /\ rq.decodes < 2
        THEN [rq EXCEPT !.reply = reply, !.fetchErr = res.err, !.decodes = @ + 1]
        ELSE IF res.err # ""
        THEN jsonWrite([rq EXCEPT !.reply = reply, !.fetchErr = res.err], 502,
                       [vin |-> rq.vin, error |-> res.err])
        ELSE jsonWrite([rq EXCEPT !.reply = reply, !.fetchErr = ""], 200, res.resp)

\* vinHandler after client.Do ended with reply
vinAfterFetch(rq, reply) ==
    LET res == fetchVIN(rq.vin, reply)
    IN  IF res.err # ""
        THEN jsonWrite([rq EXCEPT !.reply = reply, !.fetchErr = res.err], 502,
                       [vin |-> rq.vin, error |-> res.err])
        ELSE jsonWrite([rq EXCEPT !.reply = reply, !.fetchErr = ""], 200, res.resp)

\* nhtsaHandler of the variant without a store, up to client.Do
plainBegin(rq, path) ==
    IF MissingVin(path, NhtsaPrefix)
    THEN jsonWrite([rq EXCEPT !.route = "plain"], 400, [error |-> "use /nhtsa/{vin}"])
    ELSE [rq EXCEPT !.route = "plain", !.pc = "plain_wait",
                    !.vin = PathVin(path, NhtsaPrefix), !.decodes = @ + 1]

\* nhtsaHandler of the variant without a store, after client.Do ended
plainAfterFetch(rq, reply) ==
    LET res == fetchNHTSA(rq.vin, reply)
    IN  IF res.err # ""
        THEN jsonWrite([rq EXCEPT !.reply = reply, !.fetchErr = res.err], 502,
                       [vin |-> rq.vin, error |-> res.err])
        ELSE LET out == Normalize(rq.vin, Flat(res.results))
             IN  jsonWrite([rq EXCEPT !.reply = reply, !.fetchErr = "", !.out = out],
                           200, out)

\* (mutant) the client is built without a Timeout: only the context of
\* vinHandler still bounds a call
DeadlineUnarmed(route) == IF route = "vin" THEN CtxTimeoutSec ELSE 0

\* seconds after which client.Do gives up; 0 is a call nothing bounds. The
\* client's Timeout bounds every call, vinHandler's context bounds its own
Deadline(route) ==
    IF route = "vin" /\ CtxTimeoutSec < ClientTimeoutSec THEN CtxTimeoutSec
    ELSE ClientTimeoutSec

vinStart(r) ==
    /\ MayStart(r)
    /\ \E vin \in VINs :
          reqs' = [reqs EXCEPT ![r] = vinBegin(reqs[r], VinPrefix \o vin)]
    /\ UNCHANGED <<store, clock>>

\* the JD Power service answers, or the connection breaks
vinAnswer(r) ==
    /\ reqs[r].pc = "vin_wait"
    /\ \E reply \in VinReplies :
          reqs' = [reqs EXCEPT ![r] = vinAfterFetch(reqs[r], reply)]
    /\ UNCHANGED <<store, clock>>

\* no answer within the deadline
vinDeadline(r) ==
    /\ reqs[r].pc = "vin_wait"
    /\ Deadline(reqs[r].route) > 0
    /\ reqs' = [reqs EXCEPT ![r] = vinAfterFetch(reqs[r], TimeoutReply)]
    /\ UNCHANGED <<store, clock>>

\* the caller goes away while the call is outstanding: r.Context() is
\* cancelled and with it the context the request to the service carries
vinCancel(r) ==
    /\ reqs[r].pc = "vin_wait"
    /\ reqs' = [reqs EXCEPT ![r] =
                  vinAfterFetch([reqs[r] EXCEPT !.cancelled = TRUE], CanceledReply)]
    /\ UNCHANGED <<store, clock>>

plainStart(r) ==
    /\ MayStart(r)
    /\ \E vin \in VINs :
          reqs' = [reqs EXCEPT ![r] = plainBegin(reqs[r], NhtsaPrefix \o vin)]
    /\ UNCHANGED <<store, clock>>

plainAnswer(r) ==
    /\ reqs[r].pc = "plain_wait"
    /\ \E reply \in {x \in Replies : x.kind # "timeout"} :
          reqs' = [reqs EXCEPT ![r] = plainAfterFetch(reqs[r], reply)]
    /\ UNCHANGED <<store, clock>>

plainDeadline(r) ==
    /\ reqs[r].pc = "plain_wait"
    /\ Deadline(reqs[r].route) > 0
    /\ reqs' = [reqs EXCEPT ![r] = plainAfterFetch(reqs[r], TimeoutReply)]
    /\ UNCHANGED <<store, clock>>

NextDecoder ==
    \E r \in Reqs :
        \/ vinStart(r)
        \/ vinAnswer(r)
        \/ vinDeadline(r)
        \/ vinCancel(r)
        \/ plainStart(r)
        \/ plainAnswer(r)
        \/ plainDeadline(r)

SpecDecoder == Init /\ [][NextDecoder]_vars

\* the timers of the Go runtime fire: a call that stays outstanding is
\* ended by its deadline
FairSpecDecoder ==
    /\ SpecDecoder
    /\ \A r \in Reqs : WF_vars(vinDeadline(r)) /\ WF_vars(plainDeadline(r))

\* ------------------------------------------------------------ C11
JDRequests == {r \in Reqs : reqs[r].route = "vin"}

\* the service answered HTTP 200 with a payload that parsed
AnsweredWithPayload(r) ==
    /\ reqs[r].pc = "done"
    /\ reqs[r].reply.kind = "http"
    /\ reqs[r].reply.code = 200

\* C11: in the JD Power variant a parsed HTTP 200 answer whose business
\* status is anything but "ExactMatch", the empty status of a payload
\* without one included, ends the request with 502 and the error, never with
\* a record; a 200 answer of the handler carries the status "ExactMatch";
\* and nothing is stored
C11_BusinessRejectionIsFailure ==
    /\ store = {}
    /\ \A r \in JDRequests :
          /\ AnsweredWithPayload(r) /\ reqs[r].reply.status # "ExactMatch"
                => /\ reqs[r].status = 502
                   /\ reqs[r].body = [vin |-> reqs[r].vin, error |-> "status da API"]
          /\ reqs[r].status = 200
                => /\ AnsweredWithPayload(r)
                   /\ reqs[r].reply.status = "ExactMatch"
                   /\ reqs[r].body = [Status |-> "ExactMatch",
                                      Models |-> reqs[r].reply.results]

\* a payload with models and no status was turned into a 502
C11_Witness ==
    \E r \in JDRequests :
        /\ AnsweredWithPayload(r)
        /\ reqs[r].reply.status = ""
        /\ reqs[r].reply.results = <<SampleModel>>
        /\ reqs[r].status = 502

\* ------------------------------------------------------------ C12
Lookups == {r \in Reqs : reqs[r].route = "vehicles"}

\* C12 (store-only lookup): a GET /vehicles/{vin} whose query the database
\* answered never calls the decoder and never writes; it is answered 200
\* with the stored record when the VIN has a row, and 404 exactly when the
\* VIN has none
C12_StoreOnlyLookup ==
    \A r \in Lookups :
        reqs[r].pc = "done" /\ StoreAnswered(r)
            => /\ reqs[r].decodes = 0 /\ reqs[r].fetchErr = "-"
               /\ reqs[r].dbErr = "-" /\ reqs[r].wroteAt = 0
               /\ RowWasPresent(r) => reqs[r].status = 200
               /\ reqs[r].status = 404 <=> ~RowWasPresent(r)

\* ------------------------------------------------------------ C13
\* C13 (record key is the request VIN): the record a resolve request builds
\* from a decode, upserts and returns carries the VIN of the request path,
\* whatever VIN the payload carries or lacks; and every row of the store is
\* keyed by the VIN of a resolve request that upserted it
C13_RecordKeyIsRequestVin ==
    /\ \A r \in Resolves :
          reqs[r].fetchErr = ""
             => /\ reqs[r].out.vin = reqs[r].vin
                /\ reqs[r].pc = "done" => reqs[r].body.vin = reqs[r].vin
    /\ \A row \in store : Writers(row.vin) # {}

\* a payload that names another VIN was upserted and returned under the
\* VIN of the request
C13_Witness ==
    \E r \in Resolves, row \in store :
        /\ reqs[r].pc = "done" /\ UpsertOk(r)
        /\ reqs[r].out.raw = mFull
        /\ mFull["VIN"] = Str("OTHERVIN")
        /\ row.vin = reqs[r].vin /\ RowWrittenBy(row, r)

\* ------------------------------------------------------------ C14
DecoderCallers == {r \in Reqs : reqs[r].route \in {"vin", "plain"}}

\* C14 (no retries): a request sends the decoder at most one request, and
\* one whose call failed has been answered 502 with the cause, its single
\* call not repeated
C14_NoRetries ==
    \A r \in DecoderCallers :
        /\ reqs[r].decodes <= 1
        /\ DecodeFailed(r)
              => /\ reqs[r].pc = "done" /\ reqs[r].status = 502
                 /\ reqs[r].body = [vin |-> reqs[r].vin, error |-> reqs[r].fetchErr]
                 /\ reqs[r].decodes = 1

\* both clients have had a call fail: a transport error of the JD Power
\* service, a 500 of the NHTSA service
C14_Witness ==
    \E r1 \in DecoderCallers, r2 \in DecoderCallers :
        /\ reqs[r1].route = "vin" /\ reqs[r1].reply.kind = "transport"
        /\ reqs[r1].status = 502 /\ reqs[r1].decodes = 1
        /\ reqs[r2].route = "plain" /\ reqs[r2].reply.code = 500
        /\ reqs[r2].status = 502 /\ reqs[r2].decodes = 1

\* ------------------------------------------------------------ C15
\* the decoder call of request r is outstanding
Outstanding(r) == reqs[r].pc \in {"vin_wait", "plain_wait"}

\* the call of request r was ended by its deadline and the request answered
\* with the failure
TimedOut(r) ==
    /\ reqs[r].pc = "done"
    /\ reqs[r].reply.kind = "timeout"
    /\ reqs[r].status = 502
    /\ reqs[r].body.vin = reqs[r].vin
    /\ reqs[r].body.error \in {"executando request", "http request"}

\* C15 (bounded decoder wait): a request whose decoder call is outstanding
\* does not wait forever: it is eventually answered, and when no answer
\* came (the call was ended by the fixed timeout) the answer is the failure
\* response
C15_BoundedDecoderWait ==
    \A r \in Reqs :
        Outstanding(r)
            ~> /\ reqs[r].pc = "done"
               /\ reqs[r].reply.kind = "timeout" => TimedOut(r)

\* both clients have had a call ended by the timeout
C15_Witness ==
    \E r1 \in Reqs, r2 \in Reqs :
        /\ reqs[r1].route = "vin" /\ TimedOut(r1)
        /\ reqs[r2].route = "plain" /\ TimedOut(r2)

\* ------------------------------------------------------------ C16
\* the caller of a resolve request of the store-backed service goes away
\* while fetchNHTSA is outstanding: r.Context() is cancelled, but the
\* request fetchNHTSA sent was built by http.NewRequest and carries no
\* context, so the call goes on
nhtsaCancel(r) ==
    /\ reqs[r].pc = "nhtsa_fetch"
    /\ ~reqs[r].cancelled
    /\ reqs' = [reqs EXCEPT ![r].cancelled = TRUE]
    /\ UNCHANGED <<store, clock>>

NextCancel ==
    \/ Next
    \/ \E r \in Reqs : nhtsaCancel(r)

SpecCancel == Init /\ [][NextCancel]_vars

\* C16 (caller cancellation): once the caller has cancelled a request whose
\* decoder call was outstanding, that call does not succeed and the request
\* attempts no upsert
C16_CallerCancellation ==
    \A r \in Reqs :
        reqs[r].cancelled
            => /\ reqs[r].fetchErr # ""
               /\ reqs[r].pc # "nhtsa_upsert"
               /\ reqs[r].dbErr = "-"

\* ------------------------------------------------------------ C17
\* request r's upsert succeeds in this step on a VIN that already has a row
OverwritesIn(r) ==
    /\ reqs[r].pc = "nhtsa_upsert"
    /\ reqs'[r].pc = "done" /\ reqs'[r].dbErr = ""
    /\ RowsOf(store, reqs[r].vin) # {}

\* C17 (full overwrite on re-decode): an upsert onto an existing row leaves
\* the VIN with one row under the same key whose every canonical field and
\* raw payload are the new record's, a field the new record lacks being
\* absent in the row; the rows of other VINs are not touched
C17_FullOverwrite ==
    [][\A r \in Reqs :
          OverwritesIn(r)
             => /\ \E row \in store' :
                      /\ RowsOf(store', reqs[r].vin) = {row}
                      /\ row.vin = reqs[r].vin
                      /\ \A c \in Cols : row[c] = reqs[r].out[c]
                      /\ row.raw = Marshal(reqs[r].out.raw)
                /\ \A row \in store : row.vin # reqs[r].vin => row \in store']_vars

\* a complete record was overwritten by a partial one: the fields the
\* partial record lacks are absent in the row, none of the old values is left
C17_Witness ==
    \E r1 \in Resolves, r2 \in Resolves, row \in store :
        /\ reqs[r1].vin = reqs[r2].vin /\ row.vin = reqs[r2].vin
        /\ UpsertOk(r1) /\ UpsertOk(r2)
        /\ reqs[r1].out.raw = mFull /\ reqs[r2].out.raw = mPartial
        /\ 0 < reqs[r1].wroteAt /\ reqs[r1].wroteAt < reqs[r2].wroteAt
        /\ row.last_updated = reqs[r2].wroteAt
        /\ row.make = Str("Honda") /\ row.body_class = Nil /\ row.fuel_type = Nil
        /\ row.raw = Marshal(mPartial)

\* ------------------------------------------------------------ C18
StoredVins(st) == {row.vin : row \in st}

\* C18 (records are never deleted): no step of the service removes a VIN
\* from the store; the set of stored VINs only grows
C18_NeverDeleted == [][StoredVins(store) \subseteq StoredVins(store')]_vars

\* a second VIN was stored after a first one, and the first one's row is
\* still there
C18_Witness ==
    \E row1 \in store, row2 \in store :
        /\ row1.vin = VinA /\ row2.vin = VinB
        /\ row1.last_updated # row2.last_updated
        /\ StoredVins(store) = {VinA, VinB}

\* ------------------------------------------------------------ C19
\* decoder mappings over every subset of a few keys, canonical and not, each
\* key holding a string, a number or null
GenKeys == {"Make", "ModelYear", "FuelTypePrimary", "Trim"}

GenValues == {Str("X"), Num("7"), Nil}

GenMaps == UNION {[K -> GenValues] : K \in SUBSET GenKeys}

\* the answers whose payload decodes: no result, or one mapping
GenReplies ==
    {[kind |-> "http", code |-> 200, results |-> rs] :
        rs \in {<<>>} \cup {<<m>> : m \in GenMaps \cup SampleMaps}}

\* one request of the service without a store, answered with any of the
\* generated mappings
normAnswer ==
    /\ reqs[1].pc = "plain_wait"
    /\ \E reply \in GenReplies :
          reqs' = [reqs EXCEPT ![1] = plainAfterFetch(reqs[1], reply)]
    /\ UNCHANGED <<store, clock>>

NextNormalize ==
    \/ plainStart(1)
    \/ normAnswer

SpecNormalize == Init /\ [][NextNormalize]_vars

\* the key of the decoder mapping each canonical field is read from
SourceKey(c) ==
    CASE c = "make" -> "Make"
      [] c = "model" -> "Model"
      [] c = "model_year" -> "ModelYear"
      [] c = "manufacturer" -> "Manufacturer"
      [] c = "plant_country" -> "PlantCountry"
      [] c = "plant_state" -> "PlantState"
      [] c = "body_class" -> "BodyClass"
      [] c = "engine_cylinders" -> "EngineCylinders"
      [] c = "fuel_type" -> "FuelTypePrimary"

\* the decoder of request r delivered a payload that decoded
Decoded(r) ==
    /\ reqs[r].pc = "done"
    /\ reqs[r].reply.kind = "http" /\ reqs[r].reply.code = 200

\* C19 (normalization is total): for every mapping the decoder delivers,
\* the empty one included, the request is answered 200 with a record in
\* which each canonical field is the value under its source key, absent
\* when the key is missing or null, and whose raw payload is the whole
\* mapping unchanged
C19_NormalizationTotal ==
    \A r \in Reqs :
        reqs[r].route = "plain" /\ Decoded(r)
            => LET m == Flat(reqs[r].reply.results)
               IN  /\ reqs[r].status = 200
                   /\ reqs[r].body = reqs[r].out
                   /\ reqs[r].out.vin = reqs[r].vin
                   /\ reqs[r].out.raw = m
                   /\ \A c \in Cols :
                         reqs[r].out[c] =
                            IF SourceKey(c) \in DOMAIN m /\ m[SourceKey(c)] # Nil
                            THEN m[SourceKey(c)] ELSE Nil

\* a mapping with a number, a null and a key outside the schema was
\* normalized
C19_Witness ==
    \E r \in Reqs :
        /\ reqs[r].route = "plain" /\ Decoded(r)
        /\ DOMAIN reqs[r].out.raw = {"ModelYear", "FuelTypePrimary", "Trim"}
        /\ reqs[r].out.model_year = Num("7")
        /\ reqs[r].out.raw["FuelTypePrimary"] = Nil
        /\ reqs[r].out.fuel_type = Nil /\ reqs[r].out.make = Nil

\* ------------------------------------------------------------ C20
\* the store lookup of request r succeeds in this step: the fast path
HitsIn(r) ==
    /\ reqs[r].pc = "nhtsa_read"
    /\ reqs'[r].pc = "done" /\ reqs'[r].readErr = ""

\* request r, whose lookup had failed and whose decoder call then succeeded,
\* commits its upsert in this step
WritesAfterMissAndDecodeIn(r) ==
    /\ reqs[r].route = "nhtsa" /\ reqs[r].pc = "nhtsa_upsert"
    /\ reqs[r].readErr \in {"no rows", "scan", "conn"}
    /\ reqs[r].decodes = 1 /\ reqs[r].fetchErr = ""
    /\ reqs'[r].pc = "done" /\ reqs'[r].dbErr = ""
    /\ \A r2 \in Reqs \ {r} : reqs'[r2] = reqs[r2]

\* C20 (writes only after miss-then-decode): every step that changes the
\* store is the upsert of a resolve request that first failed to read its
\* VIN from the store and then got a successful decoder response; a
\* fast-path step leaves the store as it was
C20_WritesOnlyAfterMissThenDecode ==
    [][/\ store' # store => \E r \in Reqs : WritesAfterMissAndDecodeIn(r)
       /\ \A r \in Reqs : HitsIn(r) => store' = store]_vars

\* one request missed, decoded and stored the row; another was then served
\* from the store and left that row as the first wrote it
C20_Witness ==
    \E r1 \in Resolves, r2 \in Resolves, row \in store :
        /\ reqs[r1].readErr = "no rows" /\ reqs[r1].decodes = 1 /\ UpsertOk(r1)
        /\ reqs[r2].pc = "done" /\ reqs[r2].readErr = "" /\ reqs[r2].status = 200
        /\ reqs[r2].decodes = 0 /\ reqs[r2].dbErr = "-"
        /\ reqs[r2].vin = reqs[r1].vin /\ reqs[r2].readAt >= reqs[r1].wroteAt
        /\ RowWrittenBy(row, r1)

====
